---- MODULE Spec2Model ----
(***************************************************************************)
(* The concurrent trial harness of experiment.py: run_experiments_         *)
(* concurrently launches num_experiments coroutines run_single_experiment, *)
(* joins them with asyncio.gather and reduces the records to statistics.   *)
(* Positions of Python lists are 0-based; the sequences here are 1-based,  *)
(* so list index i is position i + 1, which is also the experiment_id.     *)
(***************************************************************************)
EXTENDS Integers, Sequences, FiniteSets, TLC

\* ---- bounds of the model ----
\* largest trial count given on the command line
MaxN == 2
\* smallest trial count given on the command line is -MinNeg
MinNeg == 1
\* most tool invocations an agent performs in one trial
MaxCalls == 2
\* longest record sequence handed to the statistics step in SpecStats
MaxLen == 4

\* Python's None
None == "None"
\* no results list and no stats dict exist yet
NoResults == <<>>
NoStats == [stats |-> None]

\* what agent.run did: still running, returned output, or raised
AgentPending == [kind |-> "pending", output |-> 0]
AgentReturned(r) == [kind |-> "return", output |-> r]
AgentRaised == [kind |-> "raise", output |-> 0]

\* a coroutine that has not finished has no result
NoResult == [kind |-> "pending", value |-> <<>>, echo |-> <<>>]

VARIABLES
    num_experiments,   \* the argument of run_experiments_concurrently
    runner_pc,         \* position of run_experiments_concurrently
    tasks,             \* line 80: the coroutines, by experiment_id
    task_pc,           \* position of each run_single_experiment coroutine
    call_count,        \* ExperimentDeps.call_count of every deps object made
    tool_calls,        \* history: invocations of foo made inside each trial
    agent_out,         \* history: what agent.run did in each trial
    task_result,       \* how each coroutine ended
    completion_order,  \* history: experiment_ids in the order they finished
    stderr,            \* click.echo(..., err=True) lines, by experiment_id
    results,           \* line 81: what asyncio.gather returned
    stats,             \* lines 94-104: the returned dict
    exception,         \* the exception run_experiments_concurrently raised
    stdout,            \* lines 121-136: the summary main prints, once printed
    environ,           \* os.environ["AGENT_TOOL_NAME"]
    sys_modules,       \* sys.modules["agents"]: the imported agents module
    runs               \* history: the tool name each run asked for and got

vars == <<num_experiments, runner_pc, tasks, task_pc, call_count, tool_calls,
          agent_out, task_result, completion_order, stderr, results, stats,
          exception, stdout, environ, sys_modules, runs>>

\* what run_experiments_concurrently and its coroutines do not touch
main_vars == <<stdout, environ, sys_modules, runs>>

\* the environment variable is not set; no agents module is imported
Unset == "<unset>"
NotLoaded == [loaded |-> FALSE, TOOL_NAME |-> "", tool |-> ""]

\* the integers an agent may report (output_type=int), up to the bound
AgentOutputs == 0..MaxCalls

\* ---- run_single_experiment ----

\* line 57: every trial constructs its own ExperimentDeps object
\* (deps_shared: one module-level object for all trials instead)
deps_shared(i) == 1
deps_of(i) == i

\* the counter the tool invocations of trial i see (ctx.deps.call_count)
counter(i) == call_count[deps_of(i)]

\* lines 65-69: the record of a trial whose agent returned r
\* (try_body_ge: >= written for ==)
try_body_ge(r, c) == [kind |-> "return", value |-> <<r, c, r >= c>>, echo |-> <<>>]
\* (try_body_clamped: the count is cut to the instructed range 1..100)
try_body_clamped(r, c) ==
    [kind |-> "return",
     value |-> <<r, IF c > 100 THEN 100 ELSE IF c < 1 THEN 1 ELSE c,
                 r = (IF c > 100 THEN 100 ELSE IF c < 1 THEN 1 ELSE c)>>,
     echo |-> <<>>]
try_body(r, c) == [kind |-> "return", value |-> <<r, c, r = c>>, echo |-> <<>>]

\* lines 70-72: the record of a trial whose agent raised
\* (except_reraise: no except clause; except_equal: accuracy compared, not False)
except_reraise(eid, c) == [kind |-> "raise", value |-> <<>>, echo |-> <<>>]
except_equal(eid, c) == [kind |-> "return", value |-> <<0, c, 0 = c>>, echo |-> <<eid>>]
\* (except_index: the diagnostic names the index i, not experiment_id;
\*  except_zero: actual_count reported as 0 like reported_count)
except_index(eid, c) == [kind |-> "return", value |-> <<0, c, FALSE>>, echo |-> <<eid - 1>>]
except_zero(eid, c) == [kind |-> "return", value |-> <<0, 0, FALSE>>, echo |-> <<eid>>]
except_body(eid, c) == [kind |-> "return", value |-> <<0, c, FALSE>>, echo |-> <<eid>>]

\* ---- asyncio.gather ----

Finished(i) == task_pc[i] = "done"

\* gather resumes its awaiter when every awaitable has finished
\* (gather_any: when the first one has, as asyncio.wait FIRST_COMPLETED)
gather_any == tasks # <<>> /\ \E i \in DOMAIN task_pc : Finished(i)
gather_ready == \A i \in DOMAIN task_pc : Finished(i)

\* gather returns the results in the order of the awaitables
\* (gather_as_completed: in the order they finished, as asyncio.as_completed)
gather_as_completed == [k \in 1..Len(completion_order) |->
                          task_result[completion_order[k]].value]
gather_results == [k \in 1..Len(tasks) |-> task_result[tasks[k]].value]

\* ---- float: IEEE-754 binary64, the type of Python's float ----
\* A float is [m, e]: m the significand's bits, most significant first
\* (MantissaBits of them, the first one 1), e the exponent of that first
\* bit; its value is 1.m[2]m[3]... * 2^e. Zero is [m |-> <<>>, e |-> 0].
\* The arithmetic below works on ChunkBits bits at a time, so that every
\* intermediate integer stays below 2^31 for operands below 2^17.
MantissaBits == 53
ChunkBits == 13

Zero == [m |-> <<>>, e |-> 0]

Pow2(n) == 2 ^ n

\* the w low bits of v, most significant first
BitsOf(v, w) == [j \in 1..w |-> (v \div Pow2(w - j)) % 2]

\* the number of bits of v >= 0
RECURSIVE NumBits(_)
NumBits(v) == IF v = 0 THEN 0 ELSE 1 + NumBits(v \div 2)

\* the integer whose bits are bits[lo..hi]
RECURSIVE ValOf(_, _, _)
ValOf(bits, lo, hi) ==
    IF lo > hi THEN 0
    ELSE IF lo = hi THEN bits[lo]
    ELSE ValOf(bits, lo, (lo + hi) \div 2) * Pow2(hi - (lo + hi) \div 2)
             + ValOf(bits, (lo + hi) \div 2 + 1, hi)

\* the next n bits of rem / den (0 <= rem < den), and what is left after them
RECURSIVE DivBits(_, _, _)
DivBits(rem, den, n) ==
    IF n = 0 THEN <<>>
    ELSE LET w == IF n < ChunkBits THEN n ELSE ChunkBits
         IN  BitsOf((rem * Pow2(w)) \div den, w)
                 \o DivBits((rem * Pow2(w)) % den, den, n - w)

RECURSIVE DivRem(_, _, _)
DivRem(rem, den, n) ==
    IF n = 0 THEN rem
    ELSE LET w == IF n < ChunkBits THEN n ELSE ChunkBits
         IN  DivRem((rem * Pow2(w)) % den, den, n - w)

\* bits + 1, most significant first; all ones wrap to all zeros
Increment(bits) ==
    LET zeros == {j \in DOMAIN bits : bits[j] = 0}
        z == IF zeros = {} THEN 0
             ELSE CHOOSE j \in zeros : \A l \in zeros : l <= j
    IN  [j \in DOMAIN bits |-> IF j < z THEN bits[j] ELSE IF j = z THEN 1 ELSE 0]

\* round to nearest, ties to even: kept bits, exponent, is more than half /
\* exactly half of a unit in the last place left over
RoundFloat(kept, e, above, half) ==
    IF above \/ (half /\ kept[Len(kept)] = 1)
    THEN IF \A j \in DOMAIN kept : kept[j] = 1
         THEN [m |-> [j \in DOMAIN kept |-> IF j = 1 THEN 1 ELSE 0], e |-> e + 1]
         ELSE [m |-> Increment(kept), e |-> e]
    ELSE [m |-> kept, e |-> e]

\* least s >= 0 with a * 2^s >= b
RECURSIVE ShiftUntil(_, _)
ShiftUntil(a, b) == IF a >= b THEN 0 ELSE 1 + ShiftUntil(2 * a, b)

\* int / int, Python's true division of p >= 0 by q > 0: correctly rounded
float_div(p, q) ==
    IF p = 0 THEN Zero
    ELSE LET big == p >= q
             \* big: q * 2^s <= p < q * 2^(s+1); else p * 2^s >= q first
             s   == IF big THEN ShiftUntil(2 * q, p + 1) ELSE ShiftUntil(p, q)
             num == IF big THEN p ELSE p * Pow2(s)
             den == IF big THEN q * Pow2(s) ELSE q
             e   == IF big THEN s ELSE 0 - s
             kept == <<1>> \o DivBits(num - den, den, MantissaBits - 1)
             rem  == DivRem(num - den, den, MantissaBits - 1)
         IN  RoundFloat(kept, e, 2 * rem > den, 2 * rem = den)

\* bits[1..hi] * c + carry for integers c >= 1 and carry >= 0, as bits, most
\* significant first
RECURSIVE TimesBits(_, _, _, _)
TimesBits(bits, c, hi, carry) ==
    IF hi = 0 THEN BitsOf(carry, NumBits(carry))
    ELSE LET lo == IF hi > ChunkBits THEN hi - ChunkBits + 1 ELSE 1
             w  == hi - lo + 1
             t  == ValOf(bits, lo, hi) * c + carry
         IN  TimesBits(bits, c, lo - 1, t \div Pow2(w)) \o BitsOf(t % Pow2(w), w)

\* the float of a significand product prod (most significant bit first, at
\* least MantissaBits long) whose factor had exponent e0: rounded once
round_product(prod, e0) ==
    LET kept == SubSeq(prod, 1, MantissaBits)
        half == Len(prod) > MantissaBits /\ prod[MantissaBits + 1] = 1
        more == \E k \in (MantissaBits + 2)..Len(prod) : prod[k] = 1
    IN  RoundFloat(kept, e0 + (Len(prod) - MantissaBits),
                   half /\ more, half /\ ~more)

\* float * int for an integer c > 0 that a float holds exactly: the exact
\* product of the significand by c, rounded once
float_mul_int(x, c) ==
    IF x = Zero THEN Zero
    ELSE round_product(TimesBits(x.m, c, Len(x.m), 0), x.e)

\* ---- the statistics of run_experiments_concurrently, lines 84-92 ----

\* sum(accuracies): True counts 1, False counts 0
\* (sum_all: len written for sum)
sum_all(bools) == Len(bools)
RECURSIVE sum_bools(_)
sum_bools(bools) ==
    IF bools = <<>> THEN 0
    ELSE (IF Head(bools) THEN 1 ELSE 0) + sum_bools(Tail(bools))

\* Counter.update, one element: a new key goes last and starts at 1, a key
\* already there keeps its place and counts one more. A Counter is the
\* sequence of its <<key, count>> items in dict order (insertion order).
\* (counter_overwrite: a key already there is not counted again)
counter_overwrite(c, x) ==
    IF \E j \in DOMAIN c : c[j][1] = x THEN c ELSE Append(c, <<x, 1>>)
\* (counter_move_last: a key counted again moves to the end)
counter_move_last(c, x) ==
    IF \E j \in DOMAIN c : c[j][1] = x
    THEN Append(SelectSeq(c, LAMBDA item : item[1] # x),
                <<x, (CHOOSE item \in {c[j] : j \in DOMAIN c} : item[1] = x)[2] + 1>>)
    ELSE Append(c, <<x, 1>>)
counter_update(c, x) ==
    IF \E j \in DOMAIN c : c[j][1] = x
    THEN [j \in DOMAIN c |-> IF c[j][1] = x THEN <<x, c[j][2] + 1>> ELSE c[j]]
    ELSE Append(c, <<x, 1>>)

\* line 90: Counter(actual_counts)
RECURSIVE Counter(_)
Counter(seq) ==
    IF seq = <<>> THEN <<>>
    ELSE counter_update(Counter(SubSeq(seq, 1, Len(seq) - 1)), seq[Len(seq)])

\* max(items, key=itemgetter(1)) keeps the item it holds unless a later one
\* is strictly greater
\* (max_keeps_last: >= written for >, the last maximal item wins)
max_keeps_last(best, item) == IF item[2] >= best[2] THEN item ELSE best
max_step(best, item) == IF item[2] > best[2] THEN item ELSE best

RECURSIVE max_by_count(_, _)
max_by_count(best, items) ==
    IF items = <<>> THEN best
    ELSE max_by_count(max_step(best, Head(items)), Tail(items))

\* line 91: most_common(1)[0], for a Counter with at least one item
most_common_1(c) == max_by_count(Head(c), Tail(c))

\* lines 84-104 for a non-empty results list
statistics(n, res) ==
    LET reported_counts == [k \in DOMAIN res |-> res[k][1]]
        actual_counts   == [k \in DOMAIN res |-> res[k][2]]
        accuracies      == [k \in DOMAIN res |-> res[k][3]]
        actual_count_frequencies == Counter(actual_counts)
        most_common == most_common_1(actual_count_frequencies)
    IN  [num_experiments |-> n,
         accuracy_rate |->
             float_mul_int(float_div(sum_bools(accuracies), Len(accuracies)), 100),
         most_common_count |-> most_common[1],
         most_common_percentage |->
             float_mul_int(float_div(most_common[2], n), 100),
         reported_counts |-> reported_counts,
         actual_counts |-> actual_counts,
         accuracies |-> accuracies,
         actual_count_frequencies |-> actual_count_frequencies]

\* how lines 84-104 end for the results list res: line 89 divides by
\* len(accuracies), and int / 0 raises ZeroDivisionError before anything is
\* returned
\* (stats_outcome_empty_report: the empty list gets a report of zeros)
stats_outcome_empty_report(n, res) ==
    IF Len(res) = 0
    THEN [pc |-> "returned", exception |-> None,
          stats |-> [num_experiments |-> n, accuracy_rate |-> Zero,
                     most_common_count |-> 0, most_common_percentage |-> Zero,
                     reported_counts |-> <<>>, actual_counts |-> <<>>,
                     accuracies |-> <<>>, actual_count_frequencies |-> <<>>]]
    ELSE [pc |-> "returned", exception |-> None, stats |-> statistics(n, res)]
stats_outcome(n, res) ==
    IF Len(res) = 0
    THEN [pc |-> "raised", exception |-> "ZeroDivisionError", stats |-> NoStats]
    ELSE [pc |-> "returned", exception |-> None, stats |-> statistics(n, res)]

\* ---- main, lines 121-136: the printed summary ----

\* sum(stats['actual_counts'])
RECURSIVE sum_ints(_)
sum_ints(seq) == IF seq = <<>> THEN 0 ELSE Head(seq) + sum_ints(Tail(seq))

\* min(...) and max(...) of a non-empty list of integers
min_of(seq) == CHOOSE x \in {seq[k] : k \in DOMAIN seq} :
                   \A k \in DOMAIN seq : x <= seq[k]
max_of(seq) == CHOOSE x \in {seq[k] : k \in DOMAIN seq} :
                   \A k \in DOMAIN seq : x >= seq[k]

\* the number of tenths that f"{x:.1f}" shows of the float whose significand
\* times ten is prod and whose exponent is e: the first intbits bits of prod
\* are the whole tenths, and what is left is rounded to nearest, ties to even
\* (tenths_floor: the digits after the first decimal are cut off)
tenths_floor(prod, e) ==
    LET intbits == Len(prod) - (MantissaBits - 1) + e
    IN  IF intbits <= 0 THEN 0 ELSE ValOf(prod, 1, intbits)

tenths(prod, e) ==
    LET intbits == Len(prod) - (MantissaBits - 1) + e
        floor == IF intbits <= 0 THEN 0 ELSE ValOf(prod, 1, intbits)
        half  == intbits >= 0 /\ intbits < Len(prod) /\ prod[intbits + 1] = 1
        more  == \E k \in (intbits + 2)..Len(prod) : k >= 1 /\ prod[k] = 1
    IN  IF half /\ (more \/ floor % 2 = 1) THEN floor + 1 ELSE floor

\* t tenths as the text "d.d": <<whole part, first decimal>>
decimal_1(t) == <<t \div 10, t % 10>>

\* f"{x:.1f}" for a float 0 <= x < 2^17
format_1f(x) ==
    IF x = Zero THEN decimal_1(0)
    ELSE decimal_1(tenths(TimesBits(x.m, 10, Len(x.m), 0), x.e))

\* lines 121-136: what main prints of the returned dict
summary(st) ==
    [experiments |-> st.num_experiments,
     accuracy |-> format_1f(st.accuracy_rate),
     most_common_count |-> st.most_common_count,
     most_common_percentage |-> format_1f(st.most_common_percentage),
     distribution |-> st.actual_count_frequencies,
     average |-> format_1f(float_div(sum_ints(st.actual_counts),
                                     Len(st.actual_counts))),
     min |-> min_of(st.actual_counts),
     max |-> max_of(st.actual_counts)]

\* ---- the state machine ----

\* main, line 114: click passes any integer as num_experiments
Init ==
    /\ num_experiments \in (0 - MinNeg)..MaxN
    /\ runner_pc = "start"
    /\ tasks = <<>>
    /\ task_pc = <<>>
    /\ call_count = <<>>
    /\ tool_calls = <<>>
    /\ agent_out = <<>>
    /\ task_result = <<>>
    /\ completion_order = <<>>
    /\ stderr = <<>>
    /\ results = NoResults
    /\ stats = NoStats
    /\ exception = None
    /\ stdout = <<>>
    /\ environ = Unset
    /\ sys_modules = NotLoaded
    /\ runs = <<>>

\* line 80: one coroutine per i in range(num_experiments), experiment_id
\* i + 1; line 81 hands them to gather and suspends
Launch ==
    /\ runner_pc = "start"
    /\ runner_pc' = "gather"
    /\ tasks' = [k \in 1..num_experiments |-> (k - 1) + 1]
    /\ task_pc' = [k \in 1..num_experiments |-> "created"]
    /\ tool_calls' = [k \in 1..num_experiments |-> 0]
    /\ agent_out' = [k \in 1..num_experiments |-> AgentPending]
    /\ task_result' = [k \in 1..num_experiments |-> NoResult]
    /\ UNCHANGED <<num_experiments, call_count, completion_order, stderr,
                   results, stats, exception>>
    /\ UNCHANGED main_vars

\* line 81: gather schedules every coroutine it is given, so coroutine i can
\* start as soon as it exists, whatever the others are doing
\* (can_start_in_turn: each coroutine is awaited before the next one starts)
can_start_in_turn(pcs, i) ==
    pcs[i] = "created" /\ \A j \in DOMAIN pcs : j < i => pcs[j] = "done"
can_start(pcs, i) == pcs[i] = "created"

\* lines 57-60: the coroutine makes its deps and awaits agent.run
Start(i) ==
    /\ runner_pc = "gather"
    /\ can_start(task_pc, i)
    /\ task_pc' = [task_pc EXCEPT ![i] = "awaiting"]
    /\ call_count' = (deps_of(i) :> 0) @@ call_count
    /\ UNCHANGED <<num_experiments, runner_pc, tasks, tool_calls, agent_out,
                   task_result, completion_order, stderr, results, stats,
                   exception>>
    /\ UNCHANGED main_vars

\* line 45: ctx.deps.call_count += 1
\* (foo_assign: = written for +=)
foo_assign(c) == 1
foo_increment(c) == c + 1

\* lines 42-52: the agent of trial i invokes foo
InvokeTool(i) ==
    /\ task_pc[i] = "awaiting"
    /\ call_count' = [call_count EXCEPT ![deps_of(i)] = foo_increment(@)]
    /\ tool_calls' = [tool_calls EXCEPT ![i] = @ + 1]
    /\ UNCHANGED <<num_experiments, runner_pc, tasks, task_pc, agent_out,
                   task_result, completion_order, stderr, results, stats,
                   exception>>
    /\ UNCHANGED main_vars

\* an invocation, as long as the trial has made fewer than MaxCalls
ToolCall(i) == tool_calls[i] < MaxCalls /\ InvokeTool(i)

\* the coroutine of trial i ends as `end` says
Finish(i, end) ==
    /\ task_pc' = [task_pc EXCEPT ![i] = IF end.kind = "raise" THEN "raised" ELSE "done"]
    /\ task_result' = [task_result EXCEPT ![i] = end]
    /\ stderr' = stderr \o end.echo
    /\ completion_order' = Append(completion_order, i)

\* lines 60-69: agent.run returns r
AgentReturn(i, r) ==
    /\ task_pc[i] = "awaiting"
    /\ agent_out' = [agent_out EXCEPT ![i] = AgentReturned(r)]
    /\ Finish(i, try_body(r, counter(i)))
    /\ UNCHANGED <<num_experiments, runner_pc, tasks, call_count, tool_calls,
                   results, stats, exception>>
    /\ UNCHANGED main_vars

\* lines 60, 70-72: agent.run raises
AgentRaise(i) ==
    /\ task_pc[i] = "awaiting"
    /\ agent_out' = [agent_out EXCEPT ![i] = AgentRaised]
    /\ Finish(i, except_body(tasks[i], counter(i)))
    /\ UNCHANGED <<num_experiments, runner_pc, tasks, call_count, tool_calls,
                   results, stats, exception>>
    /\ UNCHANGED main_vars

\* line 81: gather resumes the runner, with the results or with the first
\* exception an awaitable raised
Gather ==
    /\ runner_pc = "gather"
    /\ IF \E i \in DOMAIN task_pc : task_pc[i] = "raised"
       THEN /\ runner_pc' = "raised"
            /\ exception' = "Exception"
            /\ UNCHANGED results
       ELSE /\ gather_ready
            /\ runner_pc' = "stats"
            /\ results' = gather_results
            /\ UNCHANGED exception
    /\ UNCHANGED <<num_experiments, tasks, task_pc, call_count, tool_calls,
                   agent_out, task_result, completion_order, stderr, stats>>
    /\ UNCHANGED main_vars

\* lines 84-104: the statistics; line 89 divides by len(accuracies)
Statistics ==
    /\ runner_pc = "stats"
    /\ \E out \in {stats_outcome(num_experiments, results)} :
           /\ runner_pc' = out.pc
           /\ exception' = out.exception
           /\ stats' = out.stats
    /\ UNCHANGED <<num_experiments, tasks, task_pc, call_count, tool_calls,
                   agent_out, task_result, completion_order, stderr, results>>
    /\ UNCHANGED main_vars

\* main, lines 121-136: the summary of the returned dict goes to standard
\* output
PrintResults ==
    /\ runner_pc = "returned"
    /\ stdout = <<>>
    /\ stdout' = <<summary(stats)>>
    /\ UNCHANGED <<num_experiments, runner_pc, tasks, task_pc, call_count,
                   tool_calls, agent_out, task_result, completion_order,
                   stderr, results, stats, exception>>
    /\ UNCHANGED <<environ, sys_modules, runs>>

Next ==
    \/ Launch
    \/ \E i \in DOMAIN task_pc : Start(i)
    \/ \E i \in DOMAIN task_pc : ToolCall(i)
    \/ \E i \in DOMAIN task_pc : \E r \in AgentOutputs : AgentReturn(i, r)
    \/ \E i \in DOMAIN task_pc : AgentRaise(i)
    \/ Gather
    \/ Statistics
    \/ PrintResults

Spec == Init /\ [][Next]_vars

\* ---- the batch under a fair event loop ----

\* the steps of trial i: its coroutine starts; its agent invocation ends
StartOf(i) == i \in DOMAIN task_pc /\ Start(i)
AgentEnds(i) ==
    /\ i \in DOMAIN task_pc
    /\ \/ \E r \in AgentOutputs : AgentReturn(i, r)
       \/ AgentRaise(i)

\* Statistics and PrintResults are enabled exactly in these states, and a
\* step of either ends its own enabledness
StatisticsEnabled == runner_pc = "stats"
PrintResultsEnabled == runner_pc = "returned" /\ stdout = <<>>

\* the event loop runs every coroutine that is ready (lines 80-81) and every
\* agent invocation ends, by returning or by raising; the statistics and the
\* printing are straight-line code that runs to its end (lines 84-104 and
\* 121-136): weak fairness of Statistics and of PrintResults, written as
\* "not enabled for ever", which is what weak fairness says of an action
\* that disables itself
Fairness ==
    /\ WF_vars(Launch)
    /\ \A i \in 1..MaxN : WF_vars(StartOf(i)) /\ WF_vars(AgentEnds(i))
    /\ WF_vars(Gather)
    /\ []<>~StatisticsEnabled
    /\ []<>~PrintResultsEnabled

SpecFair == Spec /\ Fairness

\* ---- the statistics step alone, on bounded record sequences ----

\* the counter values the trials of a batch ended with
StatsCounts == {3, 5}
\* how a trial ended: the agent reported its count, one more, or raised
StatsEnds == {"same", "more", "raise"}

\* the state in which gather has just returned the records of n finished
\* trials, trial i having made calls[i] tool invocations and ended as
\* ends[i] says
AfterGather(n, calls, ends) ==
    /\ num_experiments = n
    /\ runner_pc = "stats"
    /\ tasks = [k \in 1..n |-> (k - 1) + 1]
    /\ task_pc = [k \in 1..n |-> "done"]
    /\ call_count = [k \in 1..n |-> calls[k]]
    /\ tool_calls = calls
    /\ agent_out = [k \in 1..n |->
                      IF ends[k] = "raise" THEN AgentRaised
                      ELSE IF ends[k] = "same" THEN AgentReturned(calls[k])
                      ELSE AgentReturned(calls[k] + 1)]
    /\ task_result = [k \in 1..n |->
                        IF ends[k] = "raise" THEN except_body(tasks[k], calls[k])
                        ELSE try_body(agent_out[k].output, calls[k])]
    /\ completion_order = [k \in 1..n |-> k]
    /\ stderr = SelectSeq(tasks, LAMBDA k : ends[k] = "raise")
    /\ results = gather_results
    /\ stats = NoStats
    /\ exception = None
    /\ stdout = <<>>
    /\ environ = Unset
    /\ sys_modules = NotLoaded
    /\ runs = <<>>

InitStats ==
    \E n \in 1..MaxLen :
        \E calls \in [1..n -> StatsCounts] :
            \E ends \in [1..n -> StatsEnds] : AfterGather(n, calls, ends)

NextStats == Statistics

SpecStats == InitStats /\ [][NextStats]_vars

\* ---- statistics and summary of three-trial batches ----

ScenarioTrials == 1..3
\* the counter values and the reported integers of the trials
ScenarioCounts == {4, 7, 10}
ScenarioReports == {3, 7, 10}

\* the state in which gather has just returned the records of the trials of
\* dom, trial k having made calls[k] tool invocations before its agent
\* invocation ended as outs[k]
AfterTrials(dom, calls, outs) ==
    /\ num_experiments = Cardinality(dom)
    /\ runner_pc = "stats"
    /\ tasks = [k \in dom |-> (k - 1) + 1]
    /\ task_pc = [k \in dom |-> "done"]
    /\ call_count = [k \in dom |-> calls[k]]
    /\ tool_calls = calls
    /\ agent_out = outs
    /\ task_result = [k \in dom |->
                        IF outs[k].kind = "raise" THEN except_body(tasks[k], calls[k])
                        ELSE try_body(outs[k].output, calls[k])]
    /\ completion_order = [k \in dom |-> k]
    /\ stderr = SelectSeq(tasks, LAMBDA k : outs[k].kind = "raise")
    /\ results = gather_results
    /\ stats = NoStats
    /\ exception = None
    /\ stdout = <<>>
    /\ environ = Unset
    /\ sys_modules = NotLoaded
    /\ runs = <<>>

InitScenario ==
    \E calls \in [ScenarioTrials -> ScenarioCounts] :
        \E reports \in [ScenarioTrials -> ScenarioReports] :
            AfterTrials(ScenarioTrials, calls,
                        [k \in ScenarioTrials |-> AgentReturned(reports[k])])

NextScenario == Statistics \/ PrintResults

SpecScenario == InitScenario /\ [][NextScenario]_vars

\* ---- the tool name of agents.py over a sequence of runs ----

\* the runs of one process
MaxRuns == 4
\* the tool names a run may be configured with; "foo" is the default
ToolNames == {"foo", "bar", "baz"}
\* the trials of a run
RunTrials == 1..2

\* agents.py line 22: os.getenv("AGENT_TOOL_NAME", "foo")
\* (getenv_ignored: the name is fixed to the default)
getenv_ignored(env) == "foo"
getenv_tool_name(env) == IF env = Unset THEN "foo" ELSE env

\* agents.py lines 22-45, the module body: TOOL_NAME is read once, the
\* singleton agent is built and counting_tool is registered under TOOL_NAME
exec_agents(env) ==
    [loaded |-> TRUE,
     TOOL_NAME |-> getenv_tool_name(env),
     tool |-> getenv_tool_name(env)]

\* import agents: a module already in sys.modules is not executed again
import_agents(mods, env) == IF mods.loaded THEN mods ELSE exec_agents(env)

\* the module is evicted from sys.modules
evict(mods) == NotLoaded

\* something imports agents while no run is being set up
ImportAgents ==
    /\ ~sys_modules.loaded
    /\ sys_modules' = import_agents(sys_modules, environ)
    /\ UNCHANGED <<num_experiments, runner_pc, tasks, task_pc, call_count,
                   tool_calls, agent_out, task_result, completion_order,
                   stderr, results, stats, exception>>
    /\ UNCHANGED <<stdout, environ, runs>>

\* one run configured with the tool name name: the environment variable is
\* set, the cached module is evicted and imported again, and every trial of
\* the run uses the tool of the module's agent
RunWithToolName(name) ==
    /\ Len(runs) < MaxRuns
    /\ environ' = name
    /\ sys_modules' = import_agents(evict(sys_modules), name)
    /\ runs' = Append(runs, [configured |-> name,
                             trial_tools |-> [k \in RunTrials |->
                                                 import_agents(evict(sys_modules), name).tool]])
    /\ UNCHANGED <<num_experiments, runner_pc, tasks, task_pc, call_count,
                   tool_calls, agent_out, task_result, completion_order,
                   stderr, results, stats, exception>>
    /\ UNCHANGED stdout

InitTool ==
    /\ num_experiments = Cardinality(RunTrials)
    /\ runner_pc = "start"
    /\ tasks = <<>>
    /\ task_pc = <<>>
    /\ call_count = <<>>
    /\ tool_calls = <<>>
    /\ agent_out = <<>>
    /\ task_result = <<>>
    /\ completion_order = <<>>
    /\ stderr = <<>>
    /\ results = NoResults
    /\ stats = NoStats
    /\ exception = None
    /\ stdout = <<>>
    /\ environ \in {Unset} \cup ToolNames
    /\ sys_modules = NotLoaded
    /\ runs = <<>>

NextTool ==
    \/ ImportAgents
    \/ \E name \in ToolNames : RunWithToolName(name)

SpecTool == InitTool /\ [][NextTool]_vars

\* ---- one trial whose agent may leave the instructed range 1..100 ----

\* the most tool invocations of the trial
CallRange == 102
\* the integers the agent may report
RangeOutputs == {0, 1, 100, 101, CallRange}

InitRange == Init /\ num_experiments = 1

RangeToolCall(i) == tool_calls[i] < CallRange /\ InvokeTool(i)

NextRange ==
    \/ Launch
    \/ \E i \in DOMAIN task_pc : Start(i)
    \/ \E i \in DOMAIN task_pc : RangeToolCall(i)
    \/ \E i \in DOMAIN task_pc : \E r \in RangeOutputs : AgentReturn(i, r)
    \/ \E i \in DOMAIN task_pc : AgentRaise(i)
    \/ Gather
    \/ Statistics
    \/ PrintResults

SpecRange == InitRange /\ [][NextRange]_vars

\* ---- what the histories say each trial did ----

\* the record trial i must hand back, from what its agent and its tool
\* invocations did
RecordOf(i) ==
    IF agent_out[i].kind = "raise"
    THEN <<0, tool_calls[i], FALSE>>
    ELSE <<agent_out[i].output, tool_calls[i], agent_out[i].output = tool_calls[i]>>

Trials == DOMAIN task_pc
Ended(i) == task_pc[i] \in {"done", "raised"}
Returned == runner_pc = "returned"

\* C1: for every N >= 1 and every completion order, gather hands back exactly
\* N records and the one at position i, in results and in reported_counts,
\* actual_counts and accuracies alike, is the record of the trial launched
\* with experiment_id i.
C1_IndexOrder ==
    /\ (runner_pc \in {"stats", "returned"} /\ num_experiments >= 1) =>
          /\ Len(results) = num_experiments
          /\ \A k \in 1..num_experiments : results[k] = RecordOf(k)
    /\ Returned =>
          /\ Len(stats.reported_counts) = num_experiments
          /\ Len(stats.actual_counts) = num_experiments
          /\ Len(stats.accuracies) = num_experiments
          /\ \A k \in 1..num_experiments :
                <<stats.reported_counts[k], stats.actual_counts[k],
                  stats.accuracies[k]>> = RecordOf(k)

\* the later trial finished first and the two records differ
C1_Witness ==
    /\ Returned
    /\ num_experiments = 2
    /\ completion_order = <<2, 1>>
    /\ results[1] # results[2]
    /\ results = <<RecordOf(1), RecordOf(2)>>

\* C2 as stated: every record, also one synthesized by the failure policy,
\* has accurate = true exactly when reported_count = actual_count.
C2_AccurateIffEqual ==
    \A i \in Trials : task_pc[i] = "done" =>
        (task_result[i].value[3] <=>
            task_result[i].value[1] = task_result[i].value[2])

\* C2 amended: accurate implies reported_count = actual_count for every
\* record; a trial that returned normally has accurate exactly when the two
\* are equal; a record synthesized by the failure policy has accurate = false,
\* also when its counter is 0 and so equals its reported 0.
C2_AccurateOnlyIfEqual ==
    \A i \in Trials : task_pc[i] = "done" =>
        LET rec == task_result[i].value
        IN  /\ rec[3] => rec[1] = rec[2]
            /\ agent_out[i].kind = "return" =>
                  /\ rec[1] = agent_out[i].output
                  /\ rec[3] <=> (rec[1] = rec[2])
            /\ agent_out[i].kind = "raise" => rec[3] = FALSE

\* a failed trial with counter 0 beside a trial that returned its count
C2_Witness ==
    /\ \E i \in Trials : /\ task_pc[i] = "done"
                         /\ agent_out[i].kind = "raise"
                         /\ task_result[i].value = <<0, 0, FALSE>>
    /\ \E i \in Trials : /\ task_pc[i] = "done"
                         /\ agent_out[i].kind = "return"
                         /\ task_result[i].value = <<MaxCalls, MaxCalls, TRUE>>

\* C3: when agent.run raises after c tool invocations, run_single_experiment
\* returns (0, c, False) and does not raise.
C3_FailureRecord ==
    \A i \in Trials : agent_out[i].kind = "raise" =>
        /\ task_pc[i] = "done"
        /\ task_result[i].kind = "return"
        /\ task_result[i].value = <<0, tool_calls[i], FALSE>>

\* failures after 0 and after MaxCalls invocations
C3_Witness ==
    /\ 2 \in Trials
    /\ agent_out[1].kind = "raise" /\ task_result[1].value = <<0, 0, FALSE>>
    /\ agent_out[2].kind = "raise"
    /\ task_result[2].value = <<0, MaxCalls, FALSE>>

\* C4: for every N >= 1 and every set of failing trials, no failure reaches
\* the batch: no coroutine ends by raising, the runner raises nothing, and
\* the report it returns is built from the records of all N trials.
C4_NoEscalation ==
    num_experiments >= 1 =>
        /\ runner_pc # "raised"
        /\ exception = None
        /\ \A i \in Trials : task_pc[i] # "raised"
        /\ Returned =>
              /\ stats.num_experiments = num_experiments
              /\ Len(stats.accuracies) = num_experiments
              /\ \A k \in 1..num_experiments :
                    /\ Ended(k)
                    /\ stats.actual_counts[k] = tool_calls[k]
                    /\ agent_out[k].kind = "raise" =>
                          /\ stats.reported_counts[k] = 0
                          /\ stats.accuracies[k] = FALSE

\* every trial of the batch failed and the report is there
C4_Witness ==
    /\ Returned
    /\ num_experiments >= 2
    /\ \A i \in Trials : agent_out[i].kind = "raise"
    /\ stats.accuracy_rate = Zero

\* C5: a batch with num_experiments <= 0 is rejected with a configuration
\* error before any trial is launched and before the statistics step: the
\* runner never gets to the statistics, raises nothing but the configuration
\* error, and no trial, record or report exists.
C5_RejectedEarly ==
    num_experiments <= 0 =>
        /\ runner_pc \notin {"stats", "returned"}
        /\ exception \in {None, "ConfigurationError"}
        /\ Trials = {}
        /\ stats = NoStats

\* C6: under every interleaving the counter of trial i moves only with the
\* tool invocations of trial i, and the actual_count recorded for trial i is
\* the number of those invocations.
C6_CounterOwned ==
    \A i \in Trials :
        /\ task_pc[i] \in {"awaiting", "done"} => counter(i) = tool_calls[i]
        /\ task_pc[i] = "done" => task_result[i].value[2] = tool_calls[i]
        /\ Returned => stats.actual_counts[i] = tool_calls[i]

\* two trials that ran side by side with different numbers of invocations
C6_Witness ==
    /\ Returned
    /\ num_experiments = 2
    /\ tool_calls = <<MaxCalls, 1>>
    /\ stats.actual_counts = <<MaxCalls, 1>>
    /\ completion_order = <<2, 1>>

\* C7: the statistics are computed and the report returned only after all N
\* launched trials have finished; no report exists while a trial is pending.
C7_ReportAfterAll ==
    runner_pc \in {"stats", "returned"} =>
        /\ Len(tasks) = IF num_experiments > 0 THEN num_experiments ELSE 0
        /\ \A i \in 1..Len(tasks) : i \in Trials /\ task_pc[i] = "done"

\* a report over one normal and one failed trial
C7_Witness ==
    /\ Returned
    /\ num_experiments = 2
    /\ agent_out[1].kind = "return"
    /\ agent_out[2].kind = "raise"
    /\ \A i \in Trials : task_pc[i] = "done"

\* ---- the statistics, against the records they were computed from ----

\* the records with accurate = true, and the places where value v occurs
AccurateSet == {i \in DOMAIN results : results[i][3]}
Occurrences(v) == {i \in DOMAIN results : results[i][2] = v}
ActualValues == {results[i][2] : i \in DOMAIN results}
FirstIndex(v) == CHOOSE i \in Occurrences(v) : \A j \in Occurrences(v) : i <= j

RECURSIVE SumOfCounts(_)
SumOfCounts(items) ==
    IF items = <<>> THEN 0 ELSE Head(items)[2] + SumOfCounts(Tail(items))

\* C8 as stated: with k accurate records out of n, accuracy_rate equals
\* 100*k/n, the quotient of the integer 100*k by n.
C8_Equals100kOverN ==
    Returned =>
        stats.accuracy_rate = float_div(100 * Cardinality(AccurateSet), Len(results))

\* C8 amended: accuracy_rate is the float (k/n)*100, the quotient k/n rounded
\* to a float, times 100, rounded again; it is exactly 0 when no record is
\* accurate and exactly 100 when all are.
C8_QuotientTimes100 ==
    Returned =>
        LET k == Cardinality(AccurateSet)
            n == Len(results)
        IN  /\ stats.accuracy_rate = float_mul_int(float_div(k, n), 100)
            /\ k = 0 => stats.accuracy_rate = Zero
            /\ k = n => stats.accuracy_rate = float_div(100, 1)

\* one accurate record out of three: 33.33333333333333, not 100*1/3
C8_Witness ==
    /\ Returned
    /\ Len(results) = 3
    /\ Cardinality(AccurateSet) = 1
    /\ stats.accuracy_rate = float_mul_int(float_div(1, 3), 100)
    /\ stats.accuracy_rate # float_div(100, 3)

\* C9: the frequency table has one entry for each distinct actual_count, its
\* count is the number of records with that value, and the counts add up to
\* the number of records.
C9_FrequencyTable ==
    Returned =>
        LET table == stats.actual_count_frequencies
        IN  /\ {table[j][1] : j \in DOMAIN table} = ActualValues
            /\ \A j, l \in DOMAIN table : table[j][1] = table[l][1] => j = l
            /\ \A j \in DOMAIN table :
                  table[j][2] = Cardinality(Occurrences(table[j][1]))
            /\ SumOfCounts(table) = Len(results)

\* a table of two values, the second seen first at position 2 and again later
C9_Witness ==
    /\ Returned
    /\ stats.actual_counts = <<5, 3, 5, 3>>
    /\ stats.actual_count_frequencies = <<<<5, 2>>, <<3, 2>>>>

\* C10: the modal count is an actual_count of highest frequency, and among
\* the values tied for the highest frequency it is the one whose first
\* occurrence in the record sequence is earliest.
C10_ModalCount ==
    Returned =>
        LET modal == stats.most_common_count
        IN  /\ modal \in ActualValues
            /\ \A v \in ActualValues :
                  /\ Cardinality(Occurrences(v)) <= Cardinality(Occurrences(modal))
                  /\ (v # modal /\ Cardinality(Occurrences(v)) =
                                      Cardinality(Occurrences(modal)))
                        => FirstIndex(modal) < FirstIndex(v)

\* the tie of [3, 5, 5, 3] goes to 3
C10_Witness ==
    /\ Returned
    /\ stats.actual_counts = <<3, 5, 5, 3>>
    /\ stats.most_common_count = 3

\* the records (7,7), (3,4), (10,10) in index order
ScenarioRecords == <<<<7, 7, TRUE>>, <<3, 4, FALSE>>, <<10, 10, TRUE>>>>

\* C11: a batch whose records are (7,7), (3,4), (10,10) in index order has 2
\* accurate records out of 3, the frequency table 7:1, 4:1, 10:1 in that
\* order and the modal count 7, and its summary shows accuracy 66.7, modal
\* share 33.3, mean 7.0, min 4 and max 10.
C11_Scenario ==
    results = ScenarioRecords =>
        /\ runner_pc \in {"stats", "returned"}
        /\ Returned =>
               /\ stats.num_experiments = 3
               /\ sum_bools(stats.accuracies) = 2
               /\ stats.actual_count_frequencies = <<<<7, 1>>, <<4, 1>>, <<10, 1>>>>
               /\ stats.most_common_count = 7
        /\ stdout # <<>> =>
               /\ stdout[1].experiments = 3
               /\ stdout[1].accuracy = <<66, 7>>
               /\ stdout[1].most_common_count = 7
               /\ stdout[1].most_common_percentage = <<33, 3>>
               /\ stdout[1].distribution = <<<<7, 1>>, <<4, 1>>, <<10, 1>>>>
               /\ stdout[1].average = <<7, 0>>
               /\ stdout[1].min = 4
               /\ stdout[1].max = 10

C11_Witness == results = ScenarioRecords /\ stdout # <<>>

\* C12: when the empty results list reaches the statistics (N <= 0), the
\* step ends by raising ZeroDivisionError: the batch never returns a report
\* and nothing is printed; a report is only ever returned for a non-empty
\* results list.
C12_EmptyFailsLoudly ==
    /\ num_experiments <= 0 =>
           /\ ~Returned
           /\ stdout = <<>>
           /\ runner_pc = "raised" => exception = "ZeroDivisionError"
    /\ Returned => Len(results) >= 1 /\ Len(stats.accuracies) = Len(results)

C12_Witness ==
    /\ num_experiments = 0
    /\ runner_pc = "raised"
    /\ exception = "ZeroDivisionError"
    /\ Len(results) = 0

\* C13: in every run of a sequence of runs, whatever names the earlier runs
\* and the environment had, the tool every trial of the run uses carries the
\* name the run was configured with, and so all trials of a run use the same
\* name.
C13_NoLeak ==
    \A r \in DOMAIN runs :
        /\ \A k \in RunTrials : runs[r].trial_tools[k] = runs[r].configured
        /\ \A k, l \in RunTrials : runs[r].trial_tools[k] = runs[r].trial_tools[l]

C13_Witness ==
    /\ Len(runs) >= 2
    /\ runs[1].configured # runs[2].configured
    /\ runs[2].configured # "foo"
    /\ \A k \in RunTrials : runs[2].trial_tools[k] = runs[2].configured

\* C14: when agent.run of a trial returns r after c tool invocations, the
\* trial hands back exactly (r, c, r == c) without a diagnostic, and that is
\* the record gather returns and the statistics use, for c = 0 and for
\* c > 100 as for any other c.
C14_RecordExact ==
    \A i \in Trials : agent_out[i].kind = "return" =>
        LET r == agent_out[i].output
            c == tool_calls[i]
        IN  /\ task_pc[i] = "done"
            /\ task_result[i] = [kind |-> "return", value |-> <<r, c, r = c>>,
                                 echo |-> <<>>]
            /\ stderr = <<>>
            /\ runner_pc \in {"stats", "returned"} => results[i] = <<r, c, r = c>>
            /\ Returned =>
                   /\ stats.reported_counts[i] = r
                   /\ stats.actual_counts[i] = c
                   /\ stats.accuracies[i] = (r = c)
                   /\ stats.most_common_count = c

\* 101 invocations reported as 100
C14_Witness ==
    /\ Returned
    /\ tool_calls = <<101>>
    /\ results = <<<<100, 101, FALSE>>>>

\* C15: in a batch of N >= 1 trials whose agent invocations all end, every
\* trial eventually hands back its record and the batch eventually returns
\* and prints its report with exactly one record per trial; a trial that
\* exists can always take its next step whatever the other trials are doing,
\* and no trial ends in any other way than by handing back a record.
C15_AllComplete ==
    /\ \A i \in 1..MaxN :
           [](num_experiments >= i => <>(i \in Trials /\ task_pc[i] = "done"))
    /\ [](num_experiments >= 1 =>
             <>(/\ Returned
                /\ stdout # <<>>
                /\ Len(results) = num_experiments
                /\ \A i \in Trials :
                       Cardinality({k \in DOMAIN completion_order :
                                       completion_order[k] = i}) = 1))
    /\ [](\A i \in Trials :
             /\ task_pc[i] \in {"created", "awaiting", "done"}
             /\ (runner_pc = "gather" /\ task_pc[i] = "created")
                    => ENABLED StartOf(i)
             /\ (runner_pc = "gather" /\ task_pc[i] = "awaiting")
                    => ENABLED AgentEnds(i))

\* the second trial failed and finished first, the first returned after it
C15_Witness ==
    /\ Returned
    /\ stdout # <<>>
    /\ num_experiments = 2
    /\ completion_order = <<2, 1>>
    /\ agent_out[2].kind = "raise"
    /\ agent_out[1].kind = "return"
    /\ Len(results) = 2

\* C16: the counter of a trial is 0 when the trial starts; every step that
\* is a tool invocation of the trial raises it by exactly 1; no other step,
\* of the trial, of another trial or of the runner, changes it, up to and
\* after the creation of the trial's record; so it never decreases.
C16_CounterSteps ==
    [][\A i \in Trials :
          /\ (task_pc[i] = "created" /\ task_pc'[i] = "awaiting")
                 => counter(i)' = 0
          /\ task_pc[i] \in {"awaiting", "done"} =>
                 /\ counter(i)' >= counter(i)
                 /\ counter(i)' = counter(i) + (tool_calls'[i] - tool_calls[i])
                 /\ tool_calls'[i] - tool_calls[i] \in {0, 1}
                 /\ task_pc[i] = "done" => counter(i)' = counter(i)
                 /\ (task_pc[i] = "awaiting" /\ task_pc'[i] = "done")
                        => task_result'[i].value[2] = counter(i)
      ]_vars

\* a trial that has made MaxCalls invocations while another one, started
\* before it, has made none
C16_Witness ==
    /\ 2 \in Trials
    /\ task_pc[1] = "awaiting" /\ task_pc[2] = "awaiting"
    /\ counter(1) = 0 /\ tool_calls[1] = 0
    /\ counter(2) = MaxCalls /\ tool_calls[2] = MaxCalls

\* the index at which the running count of v reaches f
ReachIndex(v, f) ==
    CHOOSE i \in Occurrences(v) : Cardinality({j \in Occurrences(v) : j <= i}) = f

\* C17 as stated: among the values tied for the highest frequency, the modal
\* count is the one whose running count reaches that frequency first while
\* the records are scanned in index order.
C17_FirstToReachMax ==
    Returned =>
        LET modal == stats.most_common_count
            top == Cardinality(Occurrences(modal))
        IN  \A v \in ActualValues :
                (v # modal /\ Cardinality(Occurrences(v)) = top)
                    => ReachIndex(modal, top) < ReachIndex(v, top)

\* C17 amended: the modal count is the key of the first entry, in the order
\* of the frequency table (the order of first occurrence), whose count is
\* the highest of the table; a value whose running count reaches that
\* frequency earlier but which first occurred later does not win.
C17_FirstInTable ==
    Returned =>
        LET table == stats.actual_count_frequencies
            top == CHOOSE f \in {table[j][2] : j \in DOMAIN table} :
                       \A j \in DOMAIN table : table[j][2] <= f
            first == CHOOSE j \in DOMAIN table :
                         /\ table[j][2] = top
                         /\ \A l \in DOMAIN table : table[l][2] = top => j <= l
        IN  /\ \A j, l \in DOMAIN table :
                   j < l => FirstIndex(table[j][1]) < FirstIndex(table[l][1])
            /\ stats.most_common_count = table[first][1]
            /\ \A l \in 1..(first - 1) : table[l][2] < top

\* the tie of [5, 3, 3, 5] goes to 5, though 3 reaches the count 2 first
C17_Witness ==
    /\ Returned
    /\ stats.actual_counts = <<5, 3, 3, 5>>
    /\ stats.actual_count_frequencies = <<<<5, 2>>, <<3, 2>>>>
    /\ stats.most_common_count = 5

\* the diagnostics on standard error that name experiment_id eid
Diagnostics(eid) == {k \in DOMAIN stderr : stderr[k] = eid}

\* C18: standard error holds exactly one diagnostic for every trial whose
\* agent invocation raised, naming its experiment_id (its index plus 1), and
\* none for any other trial; the step that writes a diagnostic is the end of
\* that one trial, and it changes nothing of any other trial or of the
\* runner.
C18_OneDiagnostic ==
    /\ [](\A i \in Trials :
             /\ tasks[i] = (i - 1) + 1
             /\ Cardinality(Diagnostics(tasks[i])) =
                    (IF agent_out[i].kind = "raise" THEN 1 ELSE 0)
             /\ Len(stderr) =
                    Cardinality({j \in Trials : agent_out[j].kind = "raise"}))
    /\ [][stderr' # stderr =>
             \E i \in Trials :
                 /\ agent_out[i].kind = "pending"
                 /\ agent_out'[i].kind = "raise"
                 /\ stderr' = Append(stderr, tasks[i])
                 /\ task_pc'[i] = "done"
                 /\ runner_pc' = runner_pc
                 /\ \A j \in Trials \ {i} :
                        /\ task_pc'[j] = task_pc[j]
                        /\ agent_out'[j] = agent_out[j]
                        /\ task_result'[j] = task_result[j]
                        /\ tool_calls'[j] = tool_calls[j]
                        /\ task_pc[j] = "awaiting" => counter(j)' = counter(j)
       ]_vars

\* the first trial failed, and the second went on to make MaxCalls
\* invocations and returned
C18_Witness ==
    /\ num_experiments = 2
    /\ stderr = <<1>>
    /\ completion_order = <<1, 2>>
    /\ agent_out[2].kind = "return"
    /\ task_pc[2] = "done"
    /\ tool_calls[2] = MaxCalls

\* the trials whose agent invocation returned / raised
ReturnedNormally == {i \in Trials : agent_out[i].kind = "return"}
Failed == {i \in Trials : agent_out[i].kind = "raise"}

\* C19: in the report, a trial whose agent invocation raised has accurate =
\* False whatever its counter reached, so the accurate records are at most
\* the trials that returned normally and the accuracy rate is their number
\* over all N trials; its counter value is in actual_counts, is counted in
\* the frequency table like that of any other trial, can be the modal count,
\* and enters the printed mean, minimum and maximum.
C19_FailedTrialCounts ==
    Returned =>
        LET table == stats.actual_count_frequencies
        IN  /\ \A i \in Failed :
                   /\ stats.accuracies[i] = FALSE
                   /\ stats.reported_counts[i] = 0
                   /\ stats.actual_counts[i] = tool_calls[i]
                   /\ \E j \in DOMAIN table :
                          /\ table[j][1] = tool_calls[i]
                          /\ table[j][2] =
                                 Cardinality({k \in Trials : tool_calls[k] = tool_calls[i]})
            /\ sum_bools(stats.accuracies) <= Cardinality(ReturnedNormally)
            /\ sum_bools(stats.accuracies) =
                   Cardinality({i \in ReturnedNormally :
                                   agent_out[i].output = tool_calls[i]})
            /\ stats.accuracy_rate =
                   float_mul_int(float_div(Cardinality({i \in ReturnedNormally :
                                               agent_out[i].output = tool_calls[i]}),
                                           Cardinality(Trials)), 100)
            /\ \A i \in Trials :
                   Cardinality({k \in Trials : tool_calls[k] = tool_calls[i]}) <=
                       Cardinality({k \in Trials : tool_calls[k] = stats.most_common_count})
            /\ stdout # <<>> =>
                   /\ \A i \in Trials : /\ stdout[1].min <= tool_calls[i]
                                         /\ stdout[1].max >= tool_calls[i]
                   /\ stdout[1].average =
                          format_1f(float_div(sum_ints(tool_calls), Cardinality(Trials)))

\* the failed trial made MaxCalls invocations, the other none and reported
\* 0: the failed trial's count is the modal count and the maximum
C19_Witness ==
    /\ Returned
    /\ stdout # <<>>
    /\ Failed = {1}
    /\ tool_calls = <<MaxCalls, 0>>
    /\ stats.accuracies = <<FALSE, TRUE>>
    /\ stats.most_common_count = MaxCalls
    /\ stdout[1].max = MaxCalls
    /\ stdout[1].min = 0

====
